---- MODULE Spec2Model ----
(***************************************************************************)
(* Model-selection workflow of the hyper-parameter tuning notebooks:       *)
(*   GridSearchCV(estimator, parameters, n_jobs=-1, verbose=1).fit(X, y)   *)
(*   followed by best_score_ / best_estimator_ and, in the toxic-comment   *)
(*   notebook, cross_validate_classifier (StratifiedKFold(5, shuffle)).    *)
(* The notebooks were run with scikit-learn 0.19 (the recorded "n_iter     *)
(* parameter is deprecated in 0.19" warning); the library calls are        *)
(* modelled with the behaviour they have in that release with the          *)
(* arguments the notebooks pass (cv, error_score, iid, refit at their      *)
(* defaults).                                                              *)
(***************************************************************************)
EXTENDS Integers, Sequences, FiniteSets, TLC

VARIABLES
  pc,               \* position in the notebook cell / in GridSearchCV.fit
  err,              \* exception that left the cell, "none" if none
  y,                \* data.target / target: class label of every sample
  n_splits,         \* number of folds of the splitter in use
  splits,           \* the (train, test) index sets the splitter yields, one per fold
  param_grid,       \* parameters: length of the value tuple of each (sorted) name
  bad_param,        \* parameters names something the estimator does not have
  kind,             \* how the estimator behaves under each candidate assignment
  n_jobs,           \* worker processes behind n_jobs=-1 (one per core)
  candidate_params, \* list(ParameterGrid(parameters))
  next_task,        \* next (candidate, fold) task joblib hands out
  running,          \* tasks being evaluated by a worker
  out,              \* joblib's result list, one slot per task
  completed,        \* number of tasks that have returned a result
  reordered,        \* some task returned before one submitted earlier
  evals,            \* task -> number of times its fit was started
  failed,           \* tasks whose estimator.fit raised
  cv_results,       \* cv_results_['mean_test_score'], one row per candidate
  best_index,       \* best_index_ (0 while unset)
  best_score,       \* best_score_
  best_params,      \* best_params_
  best_estimator,   \* best_estimator_: its parameters and the samples it was fit on
  run,              \* 1 on the first execution of the cell, 2 on a re-execution
  prev,             \* cv_results_ and best_index_ of the previous execution
  fold_i,           \* cross_validate_classifier: i, number of the fold being reported
  accuracy,         \* cross_validate_classifier: the accuracy list, one entry per fold
  printed,          \* what print_prediction_results printed, one record per fold
  overall,          \* the "Overall accuracy" line, NoOverall while not printed
  y_est,            \* the prediction vector last handed to print_prediction_results
  steps,            \* Pipeline.steps: name, parameters and learned state of every stage
  calls,            \* stage methods invoked by the last Pipeline.fit / Pipeline.predict
  last,             \* the last operation on the pipeline and its arguments
  ops,              \* number of operations done on the pipeline
  vectorized,       \* X was vectorized on all the documents before the search
  fitted,           \* task -> the samples its vectorizer and its classifier were fit on
  paramnames,       \* list(parameters.keys()): the names in the dict's order
  best_parameters,  \* the "Best parameters set" lines: name and value, as printed
  resultspv,        \* results.pivot(...): the score matrix, <<>> while not built
  scores,           \* ratings: the toxicity_score annotations of every comment
  toxicity,         \* scoredcomments.toxicity
  numtrainingsamples, \* np.sum(scoredcomments.toxicity == 1)
  X_text,           \* the comments of the combined set (their row numbers)
  median_score      \* scoredcomments["median_score"], as fractions

vars == <<pc, err, y, n_splits, splits, param_grid, bad_param, kind, n_jobs,
          candidate_params, next_task, running, out, completed, reordered,
          evals, failed, cv_results, best_index, best_score, best_params, best_estimator,
          run, prev, fold_i, accuracy, printed, overall,
          y_est, steps, calls, last, ops, vectorized, fitted, paramnames,
          best_parameters, resultspv, scores, toxicity, numtrainingsamples, X_text,
          median_score>>

----------------------------------------------------------------------------
(* Bounds of the model *)
MaxParams == 2        \* parameter names in a grid
MaxCandidates == 4    \* candidates of a grid (product of the tuple lengths)
MaxPerClass == 3      \* samples of one class in the search data
MaxWorkers == 2       \* cores of the machine
MaxLen == 5           \* samples handed to a fold splitter on its own
MaxK == 3             \* folds of a fold splitter on its own
MaxNonToxic == 2      \* non-toxic samples handed to cross_validate_classifier
MaxVec == 3           \* length of the vectors handed to print_prediction_results
MaxCells == 6         \* candidates of a grid whose results are printed and pivoted
MaxStages == 3        \* stages of a pipeline
MaxStageParams == 2   \* constructor parameters of one stage
MaxOps == 3           \* operations done on one pipeline object
MaxComments == 3      \* comments of a corpus that is labelled and equalized
MaxRatings == 2       \* annotation scores of one comment

(* Program constants *)
cv == 3               \* GridSearchCV's fold count ("Fitting 3 folds for each of ...")
report_splits == 5    \* StratifiedKFold(n_splits=5, shuffle=True)

Classes == {0, 1}     \* the two newsgroups / non-toxic and toxic
Kinds == {"zero", "prior", "invalid"}

Max(a, b) == IF a >= b THEN a ELSE b

RECURSIVE SumSeq(_)
SumSeq(s) == IF Len(s) = 0 THEN 0 ELSE Head(s) + SumSeq(Tail(s))

RECURSIVE ProdSeq(_)
ProdSeq(s) == IF Len(s) = 0 THEN 1 ELSE Head(s) * ProdSeq(Tail(s))

----------------------------------------------------------------------------
(* ParameterGrid: itertools.product over the value tuples of the sorted    *)
(* names, the last name varying fastest.  A candidate is the tuple of the  *)
(* positions chosen in each value tuple.                                   *)
ProductOffByOne(lens, h, m) == h * m - 1

ProductLen(lens, h, m) == h * m

RECURSIVE ParameterGrid(_)
ParameterGrid(lens) ==
  IF Len(lens) = 0 THEN << <<>> >>
  ELSE LET rest == ParameterGrid(Tail(lens))
           m == Len(rest)
       IN [i \in 1..ProductLen(lens, Head(lens), m) |->
             <<((i - 1) \div m) + 1>> \o rest[((i - 1) % m) + 1]]

----------------------------------------------------------------------------
(* KFold: fold i takes n \div k samples, the first n % k folds one more;   *)
(* the (optionally shuffled) index list is cut into consecutive chunks.    *)
FoldSizeRestFirst(n, k, i) == (n \div k) + (IF i = 1 THEN n % k ELSE 0)

FoldSize(n, k, i) == (n \div k) + (IF i <= n % k THEN 1 ELSE 0)

FoldStart(n, k, i) == SumSeq([j \in 1..(i - 1) |-> FoldSize(n, k, j)])

KFoldTest(n, k, perm, i) ==
  {perm[j] : j \in (FoldStart(n, k, i) + 1)..(FoldStart(n, k, i) + FoldSize(n, k, i))}

IdentityPerm(n) == [j \in 1..n |-> j]

(* StratifiedKFold._make_test_folds: one KFold per class over              *)
(* max(count, n_splits) placeholders, test positions beyond the class's    *)
(* count trimmed away.                                                     *)
Count(labels, c) == Cardinality({i \in 1..Len(labels) : labels[i] = c})

Present(labels) == {c \in Classes : Count(labels, c) > 0}

RankIn(labels, i) == Cardinality({j \in 1..i : labels[j] = labels[i]})

SplitRaises(labels, k) == \A c \in Present(labels) : k > Count(labels, c)

ShufflesOf(labels, k, c) ==
  IF Count(labels, c) = 0 THEN {<<>>}
  ELSE Permutations(1..Max(Count(labels, c), k))

ClassPerms(labels, k, shuffle) ==
  IF shuffle
    THEN {[c \in Present(labels) |-> IF c = 0 THEN pq[1] ELSE pq[2]] :
            pq \in ShufflesOf(labels, k, 0) \X ShufflesOf(labels, k, 1)}
    ELSE {[c \in Present(labels) |-> IdentityPerm(Max(Count(labels, c), k))]}

make_test_folds(labels, k, perms) ==
  [i \in 1..Len(labels) |->
     LET hit == {f \in 1..k :
                   RankIn(labels, i) \in
                     KFoldTest(Max(Count(labels, labels[i]), k), k, perms[labels[i]], f)}
     IN IF hit = {} THEN 1 ELSE CHOOSE f \in hit : \A g \in hit : g <= f]

(* _iter_test_masks: fold f tests the samples with test_folds = f and      *)
(* trains on all the others.                                               *)
TestSetUpTo(folds, f) == {i \in 1..Len(folds) : folds[i] <= f}

TestSet(folds, f) == {i \in 1..Len(folds) : folds[i] = f}

Split(labels, k, perms) ==
  LET folds == make_test_folds(labels, k, perms)
  IN [f \in 1..k |-> [test  |-> TestSet(folds, f),
                      train |-> (1..Len(labels)) \ TestSet(folds, f)]]

----------------------------------------------------------------------------
(* The estimator under one candidate assignment, as far as the workflow    *)
(* sees it: fit(train) either raises or yields a predictor.  "zero" always *)
(* predicts class 0, "prior" predicts the more frequent class of its       *)
(* training labels, "invalid" is a parameter combination whose fit raises. *)
Ones(labels, train) == Cardinality({j \in train : labels[j] = 1})
Zeros(labels, train) == Cardinality({j \in train : labels[j] = 0})

PredictUnseeded(kd, labels, train, i) ==
  IF kd # "prior" THEN 0
  ELSE IF Ones(labels, train) > Zeros(labels, train) THEN 1
  ELSE IF Ones(labels, train) < Zeros(labels, train) THEN 0
  ELSE IF run = 2 THEN 1 ELSE 0

Predict(kd, labels, train, i) ==
  IF kd # "prior" THEN 0
  ELSE IF Ones(labels, train) > Zeros(labels, train) THEN 1
  ELSE 0

FitSwallows(kd) == FALSE

FitRaises(kd) == kd = "invalid"

(* BaseEstimator.set_params / Pipeline.set_params: a name that is not a    *)
(* parameter of the (nested) estimator raises ValueError.                  *)
SetParamsIgnores(bad) == FALSE

SetParamsRaises(bad) == bad

(* _fit_and_score: accuracy on the test indices, kept as the pair          *)
(* (correct predictions, test samples).                                    *)
FitAndScore(kd, labels, train, test) ==
  [correct |-> Cardinality({i \in test : Predict(kd, labels, train, i) = labels[i]}),
   size    |-> Cardinality(test)]

Pending == [correct |-> -1, size |-> 0]

(* the samples the vectorizer behind a fold's score was fit on: all the    *)
(* documents when X was vectorized before the search, the fold's training  *)
(* documents when the vectorizer is a stage of the searched pipeline       *)
VectorizerFit(pre, labels, train) == IF pre THEN 1..Len(labels) ELSE train

(* the shared label array after one fold evaluation: the fit works on the  *)
(* copy made by the index selection (in a worker, on the worker's own      *)
(* copy) and writes to neither                                             *)
ReversedInPlace(labels, train) == [j \in 1..Len(labels) |-> labels[Len(labels) + 1 - j]]

AfterEvaluation(labels, train) == labels

(* the fold record _fit_and_score returns when fit raised and error_score  *)
(* is a number                                                             *)
FoldNaN(test) == [correct |-> -2, size |-> Cardinality(test)]

(* Tasks are product(candidate_params, cv.split(X, y)): candidate slowest. *)
NTasksPerCandidate == Len(candidate_params)

NTasks == Len(candidate_params) * n_splits

TaskCand(t) == ((t - 1) \div n_splits) + 1
TaskFold(t) == ((t - 1) % n_splits) + 1

----------------------------------------------------------------------------
(* GridSearchCV defaults the notebooks leave alone *)
error_score_nan == "nan"

error_score == "raise"

SearchShuffleOn == TRUE

SearchShuffle == FALSE      \* cv=None: StratifiedKFold(3), not shuffled

(* joblib.Parallel returns the results in the order the tasks were         *)
(* submitted, whatever the order they finished in.                         *)
JoinByCompletion(o, t, pos, r) == [o EXCEPT ![pos] = r]

JoinResult(o, t, pos, r) == [o EXCEPT ![t] = r]

(* Scores are exact fractions num/den; den = 0 is NaN, which compares      *)
(* false with everything.                                                  *)
NaNScore == [num |-> 0, den |-> 0]
IsNaN(a) == a.den = 0
Less(a, b) == ~IsNaN(a) /\ ~IsNaN(b) /\ a.num * b.den < b.num * a.den
SameScore(a, b) == ~IsNaN(a) /\ ~IsNaN(b) /\ a.num * b.den = b.num * a.den

(* _store with iid=True: np.average(fold scores, weights=test sizes)       *)
PlainMeanTestScore(rs) ==
  IF \E f \in 1..Len(rs) : rs[f].correct < 0 THEN NaNScore
  ELSE LET sizes == ProdSeq([f \in 1..Len(rs) |-> rs[f].size])
       IN [num |-> SumSeq([f \in 1..Len(rs) |-> rs[f].correct * (sizes \div rs[f].size)]),
           den |-> Len(rs) * sizes]

MeanTestScore(rs) ==
  IF \E i \in 1..Len(rs) : rs[i].correct < 0 THEN NaNScore
  ELSE [num |-> SumSeq([i \in 1..Len(rs) |-> rs[i].correct]),
        den |-> SumSeq([i \in 1..Len(rs) |-> rs[i].size])]

(* rankdata(-means, method='min'): NaN sorts behind every number *)
Rank(means, i) ==
  IF IsNaN(means[i])
    THEN Cardinality({j \in 1..Len(means) : ~IsNaN(means[j])})
         + Cardinality({j \in 1..i : IsNaN(means[j])})
    ELSE 1 + Cardinality({j \in 1..Len(means) : Less(means[i], means[j])})

(* best_index_ = rank.argmin(): the first index of the smallest rank *)
ArgMinLast(means) ==
  CHOOSE i \in 1..Len(means) :
    /\ \A j \in 1..Len(means) : Rank(means, i) <= Rank(means, j)
    /\ \A j \in (i + 1)..Len(means) : Rank(means, i) < Rank(means, j)

ArgMaxRank(means) ==
  CHOOSE i \in 1..Len(means) :
    /\ \A j \in 1..Len(means) : Rank(means, i) >= Rank(means, j)
    /\ \A j \in 1..(i - 1) : Rank(means, i) > Rank(means, j)

BestIndex(means) ==
  CHOOSE i \in 1..Len(means) :
    /\ \A j \in 1..Len(means) : Rank(means, i) <= Rank(means, j)
    /\ \A j \in 1..(i - 1) : Rank(means, i) < Rank(means, j)

----------------------------------------------------------------------------
(* Inputs *)
(* target = concatenate(target_nontoxic[:numtrainingsamples], target_toxic): *)
(* b toxic samples after at most b non-toxic ones                          *)
SearchData ==
  UNION {{[i \in 1..(a + b) |-> IF i <= a THEN 0 ELSE 1] : a \in 0..b} :
           b \in 1..MaxPerClass}

(* every parameter of the notebooks' grids has at least two values *)
Grids ==
  {g \in UNION {[1..m -> 2..MaxCandidates] : m \in 1..MaxParams} :
     ProdSeq(g) <= MaxCandidates}

NoEstimator == [params |-> <<>>, fitted_on |-> {}]
NoPrev == [cv_results |-> <<>>, best_index |-> 0]
NotFitted == [vectorizer |-> {}, classifier |-> {}]
NoCall == [op |-> "none", key |-> <<>>, value |-> 0, X |-> <<>>]
NoOverall == [mean |-> NaNScore, pct |-> [nan |-> TRUE, value |-> 0]]

Init ==
  /\ pc = "init"
  /\ err = "none"
  /\ y \in SearchData
  /\ n_splits = cv
  /\ splits = <<>>
  /\ param_grid \in Grids
  /\ bad_param \in BOOLEAN
  /\ kind \in [1..ProdSeq(param_grid) -> IF bad_param THEN {"zero"} ELSE Kinds]
  /\ n_jobs = MaxWorkers
  /\ candidate_params = <<>>
  /\ next_task = 1
  /\ running = {}
  /\ out = <<>>
  /\ completed = 0
  /\ reordered = FALSE
  /\ evals = <<>>
  /\ failed = {}
  /\ cv_results = <<>>
  /\ best_index = 0
  /\ best_score = NaNScore
  /\ best_params = <<>>
  /\ best_estimator = NoEstimator
  /\ run = 1
  /\ prev = NoPrev
  /\ fold_i = 1
  /\ accuracy = <<>>
  /\ printed = <<>>
  /\ overall = NoOverall
  /\ y_est = <<>>
  /\ steps = <<>>
  /\ calls = <<>>
  /\ last = NoCall
  /\ ops = 0
  /\ vectorized = FALSE
  /\ fitted = <<>>
  /\ paramnames = <<>>
  /\ best_parameters = <<>>
  /\ resultspv = <<>>
  /\ scores = <<>>
  /\ toxicity = <<>>
  /\ numtrainingsamples = 0
  /\ X_text = <<>>
  /\ median_score = <<>>

inputs == <<y, n_splits, param_grid, bad_param, kind, n_jobs>>
settings == <<n_splits, param_grid, bad_param, kind, n_jobs>>
results == <<cv_results, best_index, best_score, best_params, best_estimator>>
report_state == <<fold_i, accuracy, printed, overall, y_est>>
pipeline_state == <<steps, calls, last, ops>>
notebook_state == <<vectorized, paramnames, best_parameters, resultspv>>
prep_state == <<scores, toxicity, numtrainingsamples, X_text, median_score>>

(* GridSearchCV.fit up to the Parallel call: check_cv, the candidate list, *)
(* the folds.  The splitter raises ValueError when no class has n_splits   *)
(* members.                                                                *)
StartFit ==
  /\ pc = "init"
  /\ IF SplitRaises(y, n_splits)
       THEN /\ pc' = "error"
            /\ err' = "SplitError"
            /\ UNCHANGED <<splits, candidate_params, out, evals, fitted>>
       ELSE /\ \E perms \in ClassPerms(y, n_splits, SearchShuffle) :
                 splits' = Split(y, n_splits, perms)
            /\ candidate_params' = ParameterGrid(param_grid)
            /\ out' = [t \in 1..(Len(candidate_params') * n_splits) |-> Pending]
            /\ evals' = [t \in 1..(Len(candidate_params') * n_splits) |-> 0]
            /\ fitted' = [t \in 1..(Len(candidate_params') * n_splits) |-> NotFitted]
            /\ pc' = "running"
            /\ err' = err
  /\ UNCHANGED <<inputs, results, next_task, running, completed, reordered, failed,
                 run, prev>>
  /\ UNCHANGED report_state
  /\ UNCHANGED pipeline_state
  /\ UNCHANGED <<notebook_state, prep_state>>

(* A free worker takes the next task: _fit_and_score starts with           *)
(* estimator.set_params on the candidate, which raises ValueError for a name  *)
(* the estimator does not have; otherwise the fit on the training indices  *)
(* begins.                                                                 *)
Dispatch ==
  /\ pc = "running"
  /\ Cardinality(running) < n_jobs
  /\ next_task <= NTasks
  /\ IF SetParamsRaises(bad_param)
       THEN /\ pc' = "error"
            /\ err' = "InvalidParameter"
            /\ UNCHANGED <<next_task, running, evals>>
       ELSE /\ running' = running \cup {next_task}
            /\ evals' = [evals EXCEPT ![next_task] = @ + 1]
            /\ next_task' = next_task + 1
            /\ UNCHANGED <<pc, err>>
  /\ UNCHANGED <<inputs, results, splits, candidate_params, out, completed,
                 reordered, failed, run, prev>>
  /\ UNCHANGED report_state
  /\ UNCHANGED pipeline_state
  /\ UNCHANGED <<notebook_state, prep_state>>
  /\ UNCHANGED fitted

EarlierRunning(t) == \E u \in running : u < t

(* The task's fit and score finish.  A fit that raises is re-raised        *)
(* (error_score='raise') and ends the whole search.                        *)
WaitsForEarlier(t) == ~EarlierRunning(t)

Independent(t) == TRUE

Complete(t) ==
  /\ pc = "running"
  /\ t \in running
  /\ Independent(t)
  /\ LET c == TaskCand(t)
         f == TaskFold(t)
         test == splits[f].test
         train == splits[f].train
     IN IF FitRaises(kind[c])
          THEN /\ failed' = failed \cup {t}
               /\ IF error_score = "raise"
                    THEN /\ pc' = "error"
                         /\ err' = "FitFailure"
                         /\ UNCHANGED <<out, completed, reordered, running>>
                    ELSE /\ out' = JoinResult(out, t, completed + 1, FoldNaN(test))
                         /\ completed' = completed + 1
                         /\ reordered' = (reordered \/ EarlierRunning(t))
                         /\ running' = running \ {t}
                         /\ UNCHANGED <<pc, err>>
          ELSE /\ out' = JoinResult(out, t, completed + 1,
                                    FitAndScore(kind[c], y, train, test))
               /\ completed' = completed + 1
               /\ reordered' = (reordered \/ EarlierRunning(t))
               /\ running' = running \ {t}
               /\ UNCHANGED <<pc, err, failed>>
  /\ y' = AfterEvaluation(y, splits[TaskFold(t)].train)
  /\ fitted' = [fitted EXCEPT ![t] =
                  [vectorizer |-> VectorizerFit(vectorized, y, splits[TaskFold(t)].train),
                   classifier |-> splits[TaskFold(t)].train]]
  /\ UNCHANGED <<settings, results, splits, candidate_params, next_task, evals,
                 run, prev>>
  /\ UNCHANGED report_state
  /\ UNCHANGED pipeline_state
  /\ UNCHANGED <<notebook_state, prep_state>>

(* Parallel has returned every result: _store builds mean_test_score *)
JoinedOneCandidate == completed >= n_splits /\ running = {}

JoinedSome == completed >= 1 /\ Cardinality(running) < n_jobs

JoinedAll == next_task > NTasks /\ running = {}

Store ==
  /\ pc = "running"
  /\ JoinedAll
  /\ cv_results' = [c \in 1..Len(candidate_params) |->
                      MeanTestScore([f \in 1..n_splits |-> out[(c - 1) * n_splits + f]])]
  /\ pc' = "stored"
  /\ UNCHANGED <<err, inputs, splits, candidate_params, next_task, running, out,
                 completed, reordered, evals, failed, best_index, best_score, best_params,
                 best_estimator, run, prev>>
  /\ UNCHANGED report_state
  /\ UNCHANGED pipeline_state
  /\ UNCHANGED <<notebook_state, prep_state>>
  /\ UNCHANGED fitted

(* best_index_, best_params_, best_score_ *)
SelectBest ==
  /\ pc = "stored"
  /\ Len(cv_results) > 0
  /\ best_index' = BestIndex(cv_results)
  /\ best_score' = cv_results[best_index']
  /\ best_params' = candidate_params[best_index']
  /\ pc' = "selected"
  /\ UNCHANGED <<err, inputs, splits, candidate_params, next_task, running, out,
                 completed, reordered, evals, failed, cv_results, best_estimator, run, prev>>
  /\ UNCHANGED report_state
  /\ UNCHANGED pipeline_state
  /\ UNCHANGED <<notebook_state, prep_state>>
  /\ UNCHANGED fitted

(* refit=True: best_estimator_ = clone(base).set_params on best_params_,   *)
(* fit on all of X, y                                                      *)
RefitOnLastFold(labels) == splits[Len(splits)].train

RefitSamples(labels) == 1..Len(labels)

Refit ==
  /\ pc = "selected"
  /\ best_estimator' = [params |-> best_params, fitted_on |-> RefitSamples(y)]
  /\ pc' = "done"
  /\ UNCHANGED <<err, inputs, splits, candidate_params, next_task, running, out,
                 completed, reordered, evals, failed, cv_results, best_index, best_score,
                 best_params, run, prev>>
  /\ UNCHANGED report_state
  /\ UNCHANGED pipeline_state
  /\ UNCHANGED <<notebook_state, prep_state>>
  /\ UNCHANGED fitted

(* The cell is executed again on the same grid and data: a new             *)
(* GridSearchCV object, a new fit.                                         *)
Rerun ==
  /\ pc = "done"
  /\ run = 1
  /\ prev' = [cv_results |-> cv_results, best_index |-> best_index]
  /\ run' = 2
  /\ pc' = "init"
  /\ splits' = <<>>
  /\ candidate_params' = <<>>
  /\ next_task' = 1
  /\ out' = <<>>
  /\ completed' = 0
  /\ reordered' = FALSE
  /\ evals' = <<>>
  /\ failed' = {}
  /\ cv_results' = <<>>
  /\ best_index' = 0
  /\ best_score' = NaNScore
  /\ best_params' = <<>>
  /\ best_estimator' = NoEstimator
  /\ running' = {}
  /\ UNCHANGED <<err, inputs>>
  /\ UNCHANGED report_state
  /\ UNCHANGED pipeline_state
  /\ UNCHANGED <<notebook_state, prep_state>>
  /\ UNCHANGED fitted

Next ==
  \/ StartFit
  \/ Dispatch
  \/ \E t \in running : Complete(t)
  \/ Store
  \/ SelectBest
  \/ Refit
  \/ Rerun

Spec == Init /\ [][Next]_vars

----------------------------------------------------------------------------
(* The fold splitter on its own, for every label vector and fold count:    *)
(* StratifiedKFold(n_splits).split(X, y) as GridSearchCV calls it (not     *)
(* shuffled) and as cross_validate_classifier calls it (shuffle=True).     *)
SplitData == UNION {[1..n -> Classes] : n \in 1..MaxLen}

InitSplit ==
  /\ pc = "split"
  /\ err = "none"
  /\ y \in SplitData
  /\ n_splits \in 2..MaxK
  /\ splits = <<>>
  /\ param_grid = <<>>
  /\ bad_param = FALSE
  /\ kind = <<>>
  /\ n_jobs = 1
  /\ candidate_params = <<>>
  /\ next_task = 1
  /\ running = {}
  /\ out = <<>>
  /\ completed = 0
  /\ reordered = FALSE
  /\ evals = <<>>
  /\ failed = {}
  /\ cv_results = <<>>
  /\ best_index = 0
  /\ best_score = NaNScore
  /\ best_params = <<>>
  /\ best_estimator = NoEstimator
  /\ run = 1
  /\ prev = NoPrev
  /\ fold_i = 1
  /\ accuracy = <<>>
  /\ printed = <<>>
  /\ overall = NoOverall
  /\ y_est = <<>>
  /\ steps = <<>>
  /\ calls = <<>>
  /\ last = NoCall
  /\ ops = 0
  /\ vectorized = FALSE
  /\ fitted = <<>>
  /\ paramnames = <<>>
  /\ best_parameters = <<>>
  /\ resultspv = <<>>
  /\ scores = <<>>
  /\ toxicity = <<>>
  /\ numtrainingsamples = 0
  /\ X_text = <<>>
  /\ median_score = <<>>

search_state == <<candidate_params, next_task, running, out, completed, reordered,
                  evals, failed, run, prev>>

SplitPlain ==
  /\ pc = "split"
  /\ ~SplitRaises(y, n_splits)
  /\ \E perms \in ClassPerms(y, n_splits, FALSE) : splits' = Split(y, n_splits, perms)
  /\ pc' = "split_done"
  /\ UNCHANGED <<err, inputs, results, search_state>>
  /\ UNCHANGED report_state
  /\ UNCHANGED pipeline_state
  /\ UNCHANGED <<notebook_state, prep_state>>
  /\ UNCHANGED fitted

SplitShuffled ==
  /\ pc = "split"
  /\ ~SplitRaises(y, n_splits)
  /\ \E perms \in ClassPerms(y, n_splits, TRUE) : splits' = Split(y, n_splits, perms)
  /\ pc' = "split_done"
  /\ UNCHANGED <<err, inputs, results, search_state>>
  /\ UNCHANGED report_state
  /\ UNCHANGED pipeline_state
  /\ UNCHANGED <<notebook_state, prep_state>>
  /\ UNCHANGED fitted

SplitError ==
  /\ pc = "split"
  /\ SplitRaises(y, n_splits)
  /\ pc' = "error"
  /\ err' = "SplitError"
  /\ UNCHANGED <<splits, inputs, results, search_state>>
  /\ UNCHANGED report_state
  /\ UNCHANGED pipeline_state
  /\ UNCHANGED <<notebook_state, prep_state>>
  /\ UNCHANGED fitted

NextSplit ==
  \/ SplitPlain
  \/ SplitShuffled
  \/ SplitError

SpecSplit == InitSplit /\ [][NextSplit]_vars

----------------------------------------------------------------------------
(* cross_validate_classifier(grid_search.best_estimator_, X_text, target)  *)
(* and print_prediction_results.                                           *)

(* "%2.1f" / "%2.0f" of a quotient a / b: the nearest value, a tie going   *)
(* to the even neighbour; a zero denominator under numpy division is nan.  *)
Round(a, b) ==
  LET q == a \div b
      r == a % b
  IN IF 2 * r > b THEN q + 1
     ELSE IF 2 * r < b THEN q
     ELSE IF q % 2 = 0 THEN q ELSE q + 1

Percent(num, den, scale) ==
  IF den = 0 THEN [nan |-> TRUE, value |-> 0]
  ELSE [nan |-> FALSE, value |-> Round(scale * num, den)]

(* y_est = clf.predict(X_text[test_index]): the object predicts from the   *)
(* samples it was last fit on                                              *)
PredictTest(clf, kd, labels, test) ==
  [j \in test |-> Predict(kd, labels, clf.fitted_on, j)]

(* the counts print_prediction_results takes from y_est and y_target *)
TargetSizeUpTo(labels, test, c) == Cardinality({j \in test : labels[j] <= c})

TargetSize(labels, test, c) == Cardinality({j \in test : labels[j] = c})

CorrectAll(est, labels, test) == Cardinality({j \in test : est[j] = labels[j]})

CorrectPredicted(est, labels, test, c) == Cardinality({j \in test : est[j] = c})

CorrectOf(est, labels, test, c) ==
  Cardinality({j \in test : labels[j] = c /\ est[j] = c})

print_prediction_results(est, labels, test) ==
  [n_nontoxic   |-> TargetSize(labels, test, 0),
   pct_nontoxic |-> Percent(TargetSize(labels, test, 0), Cardinality(test), 100),
   n_toxic      |-> TargetSize(labels, test, 1),
   pct_toxic    |-> Percent(TargetSize(labels, test, 1), Cardinality(test), 100),
   all          |-> [num |-> CorrectAll(est, labels, test),
                     den |-> Cardinality(test),
                     pct |-> Percent(CorrectAll(est, labels, test),
                                     Cardinality(test), 1000)],
   nontoxic     |-> [num |-> CorrectOf(est, labels, test, 0),
                     den |-> TargetSize(labels, test, 0),
                     pct |-> Percent(CorrectOf(est, labels, test, 0),
                                     TargetSize(labels, test, 0), 1000)],
   toxic        |-> [num |-> CorrectOf(est, labels, test, 1),
                     den |-> TargetSize(labels, test, 1),
                     pct |-> Percent(CorrectOf(est, labels, test, 1),
                                     TargetSize(labels, test, 1), 1000)]]

(* np.mean(accuracy) as an exact fraction: every entry weighs the same *)
ProdDen(acc) == ProdSeq([f \in 1..Len(acc) |-> acc[f].den])

PooledAccuracy(acc) ==
  [num |-> SumSeq([f \in 1..Len(acc) |-> acc[f].num]),
   den |-> SumSeq([f \in 1..Len(acc) |-> acc[f].den])]

SumAccuracy(acc) ==
  [num |-> SumSeq([f \in 1..Len(acc) |-> acc[f].num * (ProdDen(acc) \div acc[f].den)]),
   den |-> ProdDen(acc)]

MeanAccuracy(acc) ==
  [num |-> SumSeq([f \in 1..Len(acc) |-> acc[f].num * (ProdDen(acc) \div acc[f].den)]),
   den |-> Len(acc) * ProdDen(acc)]

(* the equalized target, toxic samples after at most as many non-toxic     *)
(* ones; as many toxic samples as folds, the fewest the splitter accepts,  *)
(* or one less                                                             *)
ReportData ==
  {[j \in 1..(a + b) |-> IF j <= a THEN 0 ELSE 1] :
     a \in 0..MaxNonToxic, b \in (report_splits - 1)..report_splits}

FullFit(labels) == [params |-> <<>>, fitted_on |-> 1..Len(labels)]

InitReport ==
  /\ pc = "report"
  /\ err = "none"
  /\ y \in ReportData
  /\ n_splits = report_splits
  /\ splits = <<>>
  /\ param_grid = <<>>
  /\ bad_param = FALSE
  /\ kind \in [1..1 -> {"zero", "prior"}]
  /\ n_jobs = 1
  /\ candidate_params = <<>>
  /\ next_task = 1
  /\ running = {}
  /\ out = <<>>
  /\ completed = 0
  /\ reordered = FALSE
  /\ evals = <<>>
  /\ failed = {}
  /\ cv_results = <<>>
  /\ best_index = 0
  /\ best_score = NaNScore
  /\ best_params = <<>>
  /\ best_estimator = FullFit(y)
  /\ run = 1
  /\ prev = NoPrev
  /\ fold_i = 1
  /\ accuracy = <<>>
  /\ printed = <<>>
  /\ overall = NoOverall
  /\ y_est = <<>>
  /\ steps = <<>>
  /\ calls = <<>>
  /\ last = NoCall
  /\ ops = 0
  /\ vectorized = FALSE
  /\ fitted = <<>>
  /\ paramnames = <<>>
  /\ best_parameters = <<>>
  /\ resultspv = <<>>
  /\ scores = <<>>
  /\ toxicity = <<>>
  /\ numtrainingsamples = 0
  /\ X_text = <<>>
  /\ median_score = <<>>

report_idle == <<cv_results, best_index, best_score, best_params>>

(* kf.split(X_text, y): the shuffled stratified folds, or ValueError when  *)
(* no class has n_splits members                                           *)
ReportSplit ==
  /\ pc = "report"
  /\ IF SplitRaises(y, n_splits)
       THEN /\ pc' = "error"
            /\ err' = "SplitError"
            /\ UNCHANGED splits
       ELSE /\ \E perms \in ClassPerms(y, n_splits, TRUE) :
                 splits' = Split(y, n_splits, perms)
            /\ pc' = "folds"
            /\ UNCHANGED err
  /\ UNCHANGED <<inputs, report_idle, best_estimator, search_state, report_state>>
  /\ UNCHANGED pipeline_state
  /\ UNCHANGED <<notebook_state, prep_state>>
  /\ UNCHANGED fitted

(* one pass of the for loop: clf.fit on the training indices, clf.predict  *)
(* on the test indices, print_prediction_results, accuracy.append          *)
ReportFold ==
  /\ pc = "folds"
  /\ fold_i <= Len(splits)
  /\ LET train == splits[fold_i].train
         test == splits[fold_i].test
         clf == [best_estimator EXCEPT !.fitted_on = train]
     IN /\ best_estimator' = clf
        /\ y_est' = PredictTest(clf, kind[1], y, test)
        /\ printed' = Append(printed, print_prediction_results(y_est', y, test))
        /\ accuracy' = Append(accuracy, [num |-> CorrectAll(y_est', y, test),
                                         den |-> Cardinality(test)])
  /\ fold_i' = fold_i + 1
  /\ y' = AfterEvaluation(y, splits[fold_i].train)
  /\ UNCHANGED <<pc, err, settings, splits, report_idle, search_state, overall>>
  /\ UNCHANGED pipeline_state
  /\ UNCHANGED <<notebook_state, prep_state>>
  /\ UNCHANGED fitted

(* print("Overall accuracy = %2.1f%%" % (np.mean(accuracy) * 100)) *)
ReportOverall ==
  /\ pc = "folds"
  /\ fold_i > Len(splits)
  /\ overall' = [mean |-> MeanAccuracy(accuracy),
                 pct  |-> Percent(MeanAccuracy(accuracy).num,
                                  MeanAccuracy(accuracy).den, 1000)]
  /\ pc' = "reported"
  /\ UNCHANGED <<err, inputs, splits, report_idle, best_estimator, search_state,
                 fold_i, accuracy, printed, y_est>>
  /\ UNCHANGED pipeline_state
  /\ UNCHANGED <<notebook_state, prep_state>>
  /\ UNCHANGED fitted

NextReport ==
  \/ ReportSplit
  \/ ReportFold
  \/ ReportOverall

SpecReport == InitReport /\ [][NextReport]_vars

(* The toxic-comment notebook as a whole: the grid search, and the report  *)
(* on a model the search returned.                                         *)
InitWorkflow == Init \/ InitReport

SpecWorkflow == InitWorkflow /\ [][Next \/ NextReport]_vars

----------------------------------------------------------------------------
(* print_prediction_results(y_est, y_target) on its own, for every pair of *)
(* vectors of the same length.                                             *)
Vectors == UNION {[1..n -> Classes] : n \in 0..MaxVec}

InitPrint ==
  /\ pc = "print"
  /\ err = "none"
  /\ y \in Vectors
  /\ y_est \in [1..Len(y) -> Classes]
  /\ n_splits = 1
  /\ splits = <<>>
  /\ param_grid = <<>>
  /\ bad_param = FALSE
  /\ kind = <<>>
  /\ n_jobs = 1
  /\ candidate_params = <<>>
  /\ next_task = 1
  /\ running = {}
  /\ out = <<>>
  /\ completed = 0
  /\ reordered = FALSE
  /\ evals = <<>>
  /\ failed = {}
  /\ cv_results = <<>>
  /\ best_index = 0
  /\ best_score = NaNScore
  /\ best_params = <<>>
  /\ best_estimator = NoEstimator
  /\ run = 1
  /\ prev = NoPrev
  /\ fold_i = 1
  /\ accuracy = <<>>
  /\ printed = <<>>
  /\ overall = NoOverall
  /\ steps = <<>>
  /\ calls = <<>>
  /\ last = NoCall
  /\ ops = 0
  /\ vectorized = FALSE
  /\ fitted = <<>>
  /\ paramnames = <<>>
  /\ best_parameters = <<>>
  /\ resultspv = <<>>
  /\ scores = <<>>
  /\ toxicity = <<>>
  /\ numtrainingsamples = 0
  /\ X_text = <<>>
  /\ median_score = <<>>

(* the first line divides two Python ints, 100*size/y_est.size: with       *)
(* empty vectors that is ZeroDivisionError, before any accuracy is printed *)
PrintRaises ==
  /\ pc = "print"
  /\ Len(y_est) = 0
  /\ pc' = "error"
  /\ err' = "ZeroDivisionError"
  /\ UNCHANGED <<inputs, splits, results, search_state, report_state>>
  /\ UNCHANGED pipeline_state
  /\ UNCHANGED <<notebook_state, prep_state>>
  /\ UNCHANGED fitted

PrintResults ==
  /\ pc = "print"
  /\ Len(y_est) > 0
  /\ printed' = Append(printed, print_prediction_results(y_est, y, 1..Len(y_est)))
  /\ pc' = "printed"
  /\ UNCHANGED <<err, inputs, splits, results, search_state, fold_i, accuracy, overall,
                 y_est>>
  /\ UNCHANGED pipeline_state
  /\ UNCHANGED <<notebook_state, prep_state>>
  /\ UNCHANGED fitted

NextPrint ==
  \/ PrintRaises
  \/ PrintResults

SpecPrint == InitPrint /\ [][NextPrint]_vars

----------------------------------------------------------------------------
(* pipeline = Pipeline([(name, transformer), ..., ('clf', classifier)]):   *)
(* set_params with a flat name__parameter key, fit and predict.  A stage   *)
(* is named by its position, a parameter by its number; a data set and     *)
(* every transformed representation of it is a sequence of numbers.        *)
StageParams == 1..MaxStageParams
Values == {1, 2}                 \* the values of a grid's tuple
Data == {<<1>>, <<2>>}           \* two collections of documents

(* the stages as constructed: every parameter at its notebook default (0), *)
(* nothing learned                                                         *)
Constructed(n) ==
  [s \in 1..n |-> [name |-> s, params |-> [p \in StageParams |-> 0], learned |-> <<>>]]

(* what a fitted transformer makes of X: it depends on the stage, on what  *)
(* the stage learned and on X                                              *)
Out(s, learned, X) == <<s, Len(learned)>> \o learned \o X

(* the transformers in the order of the steps list *)
StageOrderReversed(n) == [k \in 1..(n - 1) |-> n - k]

StageOrder(n) == [k \in 1..(n - 1) |-> k]

(* Pipeline._fit: Xt after the first k - 1 transformers were fit on it *)
RECURSIVE FitInput(_, _, _)
FitInput(order, k, X) ==
  IF k = 1 THEN X
  ELSE LET Xt == FitInput(order, k - 1, X)
       IN Out(order[k - 1], Xt, Xt)

(* Pipeline.predict: Xt after the first k - 1 fitted transformers *)
RECURSIVE PredictInput(_, _, _, _)
PredictInput(st, order, k, X) ==
  IF k = 1 THEN X
  ELSE Out(order[k - 1], st[order[k - 1]].learned, PredictInput(st, order, k - 1, X))

(* BaseEstimator.set_params: key.split('__', 1) names the stage and the    *)
(* parameter of that stage; 0 when no stage has the name                   *)
RouteFirst(st, key) ==
  IF \E s \in 1..Len(st) : st[s].name = key[1] THEN 1 ELSE 0

RouteStage(st, key) ==
  IF \E s \in 1..Len(st) : st[s].name = key[1]
    THEN CHOOSE s \in 1..Len(st) : st[s].name = key[1]
    ELSE 0

Keys == (0..MaxStages) \X (0..MaxStageParams)

InitPipeline ==
  /\ pc = "pipeline"
  /\ err = "none"
  /\ y = <<>>
  /\ n_splits = 1
  /\ splits = <<>>
  /\ param_grid = <<>>
  /\ bad_param = FALSE
  /\ kind = <<>>
  /\ n_jobs = 1
  /\ candidate_params = <<>>
  /\ next_task = 1
  /\ running = {}
  /\ out = <<>>
  /\ completed = 0
  /\ reordered = FALSE
  /\ evals = <<>>
  /\ failed = {}
  /\ cv_results = <<>>
  /\ best_index = 0
  /\ best_score = NaNScore
  /\ best_params = <<>>
  /\ best_estimator = NoEstimator
  /\ run = 1
  /\ prev = NoPrev
  /\ fold_i = 1
  /\ accuracy = <<>>
  /\ printed = <<>>
  /\ overall = NoOverall
  /\ y_est = <<>>
  /\ \E n \in 2..MaxStages : steps = Constructed(n)
  /\ calls = <<>>
  /\ last = NoCall
  /\ ops = 0
  /\ vectorized = FALSE
  /\ fitted = <<>>
  /\ paramnames = <<>>
  /\ best_parameters = <<>>
  /\ resultspv = <<>>
  /\ scores = <<>>
  /\ toxicity = <<>>
  /\ numtrainingsamples = 0
  /\ X_text = <<>>
  /\ median_score = <<>>

pipeline_idle == <<inputs, splits, results, search_state, report_state>>

(* pipeline.set_params with one flat key: ValueError when the stage or     *)
(* the parameter does not exist                                            *)
set_params ==
  /\ pc = "pipeline"
  /\ ops < MaxOps
  /\ \E key \in Keys, v \in Values :
       LET s == RouteStage(steps, key)
       IN /\ last' = [op |-> "set_params", key |-> key, value |-> v, X |-> <<>>]
          /\ IF s = 0 \/ key[2] \notin StageParams
               THEN /\ pc' = "error"
                    /\ err' = "InvalidParameter"
                    /\ UNCHANGED steps
               ELSE /\ steps' = [steps EXCEPT ![s].params[key[2]] = v]
                    /\ UNCHANGED <<pc, err>>
  /\ ops' = ops + 1
  /\ UNCHANGED <<calls, pipeline_idle>>
  /\ UNCHANGED <<notebook_state, prep_state>>
  /\ UNCHANGED fitted

(* pipeline.fit(X, y) *)
fit ==
  /\ pc = "pipeline"
  /\ ops < MaxOps
  /\ \E X \in Data :
       LET n == Len(steps)
           order == StageOrder(n) \o <<n>>
       IN /\ last' = [op |-> "fit", key |-> <<>>, value |-> 0, X |-> X]
          /\ calls' = [k \in 1..n |->
                         [stage  |-> order[k],
                          method |-> IF k < n THEN "fit_transform" ELSE "fit",
                          X      |-> FitInput(order, k, X),
                          labels |-> TRUE]]
          /\ steps' = [s \in 1..n |->
                         LET k == CHOOSE j \in 1..n : order[j] = s
                         IN [steps[s] EXCEPT !.learned = FitInput(order, k, X)]]
  /\ ops' = ops + 1
  /\ UNCHANGED <<pc, err, pipeline_idle>>
  /\ UNCHANGED <<notebook_state, prep_state>>
  /\ UNCHANGED fitted

(* pipeline.predict(X): NotFittedError from the first stage when the       *)
(* pipeline was never fit                                                  *)
predict ==
  /\ pc = "pipeline"
  /\ ops < MaxOps
  /\ \E X \in Data :
       LET n == Len(steps)
           order == StageOrder(n) \o <<n>>
       IN /\ last' = [op |-> "predict", key |-> <<>>, value |-> 0, X |-> X]
          /\ IF steps[order[1]].learned = <<>>
               THEN /\ pc' = "error"
                    /\ err' = "NotFittedError"
                    /\ UNCHANGED calls
               ELSE /\ calls' = [k \in 1..n |->
                                   [stage  |-> order[k],
                                    method |-> IF k < n THEN "transform" ELSE "predict",
                                    X      |-> PredictInput(steps, order, k, X),
                                    labels |-> FALSE]]
                    /\ UNCHANGED <<pc, err>>
  /\ ops' = ops + 1
  /\ UNCHANGED <<steps, pipeline_idle>>
  /\ UNCHANGED <<notebook_state, prep_state>>
  /\ UNCHANGED fitted

NextPipeline ==
  \/ set_params
  \/ fit
  \/ predict

SpecPipeline == InitPipeline /\ [][NextPipeline]_vars

----------------------------------------------------------------------------
(* A tuning notebook from the search to its last cell, on one core: the    *)
(* search, the "Best parameters set" lines and the score matrix.           *)
NotebookGrids ==
  {g \in UNION {[1..m -> 2..MaxCells] : m \in 1..MaxParams} : ProdSeq(g) <= MaxCells}

InitNotebook ==
  /\ pc = "init"
  /\ err = "none"
  /\ y \in SearchData
  /\ n_splits = cv
  /\ splits = <<>>
  /\ param_grid \in NotebookGrids
  /\ bad_param = FALSE
  /\ kind \in [1..ProdSeq(param_grid) -> {"zero", "prior"}]
  /\ n_jobs = 1
  /\ candidate_params = <<>>
  /\ next_task = 1
  /\ running = {}
  /\ out = <<>>
  /\ completed = 0
  /\ reordered = FALSE
  /\ evals = <<>>
  /\ failed = {}
  /\ cv_results = <<>>
  /\ best_index = 0
  /\ best_score = NaNScore
  /\ best_params = <<>>
  /\ best_estimator = NoEstimator
  /\ run = 1
  /\ prev = NoPrev
  /\ fold_i = 1
  /\ accuracy = <<>>
  /\ printed = <<>>
  /\ overall = NoOverall
  /\ y_est = <<>>
  /\ steps = <<>>
  /\ calls = <<>>
  /\ last = NoCall
  /\ ops = 0
  /\ vectorized \in BOOLEAN
  /\ fitted = <<>>
  /\ paramnames \in Permutations(1..Len(param_grid))
  /\ best_parameters = <<>>
  /\ resultspv = <<>>
  /\ scores = <<>>
  /\ toxicity = <<>>
  /\ numtrainingsamples = 0
  /\ X_text = <<>>
  /\ median_score = <<>>

(* sorted(parameters.keys()) *)
Unsorted(names) == names

Sorted(names) == SortSeq(names, LAMBDA a, b : a < b)

(* best_parameters = grid_search.best_estimator_.get_params();             *)
(* for param_name in sorted(parameters.keys()): print name and value       *)
PrintBest ==
  /\ pc = "done"
  /\ best_parameters' = [k \in 1..Len(paramnames) |->
                           [name  |-> Sorted(paramnames)[k],
                            value |-> best_estimator.params[Sorted(paramnames)[k]]]]
  /\ pc' = "best_printed"
  /\ UNCHANGED <<err, inputs, splits, results, search_state, report_state,
                 pipeline_state, vectorized, fitted, paramnames, resultspv, prep_state>>

(* results.pivot(index='param_' + paramnames[0],                           *)
(*               columns='param_' + paramnames[1],                         *)
(*               values='mean_test_score'):                                *)
(* the rows of cv_results_ laid out by the values of the two named         *)
(* parameters; IndexError with one name only, ValueError when two rows     *)
(* fall into one cell                                                      *)
PivotRowsTransposed(cands, a, b, r, c) ==
  {j \in 1..Len(cands) : cands[j][a] = c /\ cands[j][b] = r}

PivotRows(cands, a, b, r, c) ==
  {j \in 1..Len(cands) : cands[j][a] = r /\ cands[j][b] = c}

PivotValues(cands, a) == {cands[j][a] : j \in 1..Len(cands)}

Pivot ==
  /\ pc = "best_printed"
  /\ IF Len(paramnames) < 2
       THEN /\ pc' = "error"
            /\ err' = "IndexError"
            /\ UNCHANGED resultspv
       ELSE LET a == paramnames[1]
                b == paramnames[2]
                index == PivotValues(candidate_params, a)
                columns == PivotValues(candidate_params, b)
            IN IF \E r \in index, c \in columns :
                    Cardinality(PivotRows(candidate_params, a, b, r, c)) > 1
                 THEN /\ pc' = "error"
                      /\ err' = "ValueError"
                      /\ UNCHANGED resultspv
                 ELSE /\ resultspv' =
                           [r \in index |-> [c \in columns |->
                              LET rows == PivotRows(candidate_params, a, b, r, c)
                              IN IF rows = {} THEN NaNScore
                                 ELSE cv_results[CHOOSE j \in rows : TRUE]]]
                      /\ pc' = "pivoted"
                      /\ UNCHANGED err
  /\ UNCHANGED <<inputs, splits, results, search_state, report_state, pipeline_state,
                 vectorized, fitted, paramnames, best_parameters, prep_state>>

NextNotebook ==
  \/ StartFit
  \/ Dispatch
  \/ \E t \in running : Complete(t)
  \/ Store
  \/ SelectBest
  \/ Refit
  \/ PrintBest
  \/ Pivot

SpecNotebook == InitNotebook /\ [][NextNotebook]_vars

----------------------------------------------------------------------------
(* Data preparation of the toxicity notebook: the annotation scores of     *)
(* each comment give its median score and its toxicity label, and the two  *)
(* classes are recombined into the training set.                           *)
ToxicityScores == {-1, 0, 1}

(* the toxicity_score annotations one comment received, in ascending order *)
Ratings ==
  {r \in UNION {[1..n -> ToxicityScores] : n \in 1..MaxRatings} :
     \A i \in 1..(Len(r) - 1) : r[i] <= r[i + 1]}

Corpora == UNION {[1..n -> Ratings] : n \in 1..MaxComments}

(* ratings.groupby("rev_id").median()["toxicity_score"]: the middle value  *)
(* of the sorted scores, or the mean of the two middle values              *)
Median(r) ==
  LET s == SortSeq(r, LAMBDA a, b : a < b)
      n == Len(s)
  IN  IF n % 2 = 1 THEN [num |-> 2 * s[(n + 1) \div 2], den |-> 2]
      ELSE [num |-> s[n \div 2] + s[n \div 2 + 1], den |-> 2]

NotAboveZero(m) == m.num <= 0

(* scoredcomments["median_score"] < 0 *)
BelowZero(m) == m.num < 0

(* (scoredcomments["median_score"] < 0).astype(int) *)
Toxicity(m) == IF BelowZero(m) THEN 1 ELSE 0

(* text[ind] for ind, = np.where(scoredcomments.toxicity == c) *)
Where(labels, c) == SelectSeq([i \in 1..Len(labels) |-> i], LAMBDA i : labels[i] = c)

(* a[:n] *)
UpTo(a, n) == SubSeq(a, 1, IF n <= Len(a) THEN n ELSE Len(a))

InitPrep ==
  /\ pc = "prep"
  /\ err = "none"
  /\ scores \in Corpora
  /\ y = <<>>
  /\ n_splits = 1
  /\ splits = <<>>
  /\ param_grid = <<>>
  /\ bad_param = FALSE
  /\ kind = <<>>
  /\ n_jobs = 1
  /\ candidate_params = <<>>
  /\ next_task = 1
  /\ running = {}
  /\ out = <<>>
  /\ completed = 0
  /\ reordered = FALSE
  /\ evals = <<>>
  /\ failed = {}
  /\ cv_results = <<>>
  /\ best_index = 0
  /\ best_score = NaNScore
  /\ best_params = <<>>
  /\ best_estimator = NoEstimator
  /\ run = 1
  /\ prev = NoPrev
  /\ fold_i = 1
  /\ accuracy = <<>>
  /\ printed = <<>>
  /\ overall = NoOverall
  /\ y_est = <<>>
  /\ steps = <<>>
  /\ calls = <<>>
  /\ last = NoCall
  /\ ops = 0
  /\ vectorized = FALSE
  /\ fitted = <<>>
  /\ paramnames = <<>>
  /\ best_parameters = <<>>
  /\ resultspv = <<>>
  /\ toxicity = <<>>
  /\ numtrainingsamples = 0
  /\ X_text = <<>>
  /\ median_score = <<>>

(* scoredcomments["median_score"] = ...median()["toxicity_score"];         *)
(* scoredcomments["toxicity"] = (median_score < 0).astype(int)             *)
Label ==
  /\ pc = "prep"
  /\ median_score' = [i \in 1..Len(scores) |-> Median(scores[i])]
  /\ toxicity' = [i \in 1..Len(scores) |-> Toxicity(Median(scores[i]))]
  /\ pc' = "labelled"
  /\ UNCHANGED <<err, inputs, splits, results, search_state, report_state,
                 pipeline_state, notebook_state, fitted, scores,
                 numtrainingsamples, X_text>>

(* numtrainingsamples = np.sum(scoredcomments.toxicity == 1);              *)
(* X_text = concatenate((X_nontoxic[:numtrainingsamples], X_toxic));       *)
(* target = concatenate((target_nontoxic[:numtrainingsamples],             *)
(*                       target_toxic))                                    *)
Equalize ==
  /\ pc = "labelled"
  /\ numtrainingsamples' = Count(toxicity, 1)
  /\ X_text' = UpTo(Where(toxicity, 0), Count(toxicity, 1)) \o Where(toxicity, 1)
  /\ y' = [k \in 1..Len(UpTo(Where(toxicity, 0), Count(toxicity, 1))) |->
             toxicity[Where(toxicity, 0)[k]]]
           \o [k \in 1..Len(Where(toxicity, 1)) |-> toxicity[Where(toxicity, 1)[k]]]
  /\ pc' = "equalized"
  /\ UNCHANGED <<err, settings, splits, results, search_state, report_state,
                 pipeline_state, notebook_state, fitted, scores, toxicity,
                 median_score>>

NextPrep == Label \/ Equalize

SpecPrep == InitPrep /\ [][NextPrep]_vars

----------------------------------------------------------------------------
(* One search under fair scheduling: every worker process that has a task  *)
(* keeps running until the task returns, and the parent process keeps      *)
(* handing out tasks and goes on when all have returned.                   *)
FairData == {v \in SearchData : Len(v) = 2 * MaxPerClass}

(* at most one candidate, in any position, has a parameter value the      *)
(* classifier rejects                                                      *)
FairKinds ==
  {k \in [1..ProdSeq(param_grid) -> {"prior", "invalid"}] :
     Cardinality({c \in 1..ProdSeq(param_grid) : k[c] = "invalid"}) <= 1}

InitFair == Init /\ y \in FairData /\ kind \in FairKinds

NextFair ==
  \/ StartFit
  \/ Dispatch
  \/ \E t \in running : Complete(t)
  \/ Store
  \/ SelectBest
  \/ Refit

Fairness ==
  /\ WF_vars(StartFit)
  /\ WF_vars(Dispatch)
  /\ WF_vars(\E t \in running : Complete(t))
  /\ WF_vars(Store)
  /\ WF_vars(SelectBest)
  /\ WF_vars(Refit)

SpecFair == InitFair /\ [][NextFair]_vars /\ Fairness

----------------------------------------------------------------------------
(* Properties *)

Searched == pc \in {"stored", "selected", "done"}
Selected == pc \in {"selected", "done"}

AllAssignments(lens) ==
  {a \in [1..Len(lens) -> 1..MaxCandidates] : \A p \in 1..Len(lens) : a[p] <= lens[p]}

(* C1: a run of the grid search enumerates exactly the Cartesian product   *)
(* of the value tuples - n1 * ... * nm candidates, none missing, none      *)
(* twice - and evaluates each of them exactly once on each fold.           *)
C1_ExhaustiveGrid ==
  /\ pc \in {"running", "stored", "selected", "done"} =>
       /\ Len(candidate_params) = ProdSeq(param_grid)
       /\ {candidate_params[i] : i \in 1..Len(candidate_params)} = AllAssignments(param_grid)
       /\ \A i, j \in 1..Len(candidate_params) :
            i # j => candidate_params[i] # candidate_params[j]
  /\ Searched =>
       /\ Len(cv_results) = ProdSeq(param_grid)
       /\ DOMAIN evals = 1..(ProdSeq(param_grid) * n_splits)
       /\ \A t \in DOMAIN evals : evals[t] = 1

C1_Witness == Searched /\ Len(param_grid) = 2 /\ param_grid[1] = 2 /\ param_grid[2] = 2

(* C2: once the best result is selected, its mean score is at least the    *)
(* mean score of every row of the table.                                   *)
C2_BestIsMax ==
  Selected =>
    /\ best_index \in 1..Len(cv_results)
    /\ best_score = cv_results[best_index]
    /\ \A c \in 1..Len(cv_results) : ~Less(best_score, cv_results[c])

C2_Witness == Selected /\ \E c \in 1..Len(cv_results) : Less(cv_results[c], best_score)

(* C3: when several candidates share the maximum mean score, the best      *)
(* result is the one that comes first in the enumeration.                  *)
Maxima(tbl) == {c \in 1..Len(tbl) : \A d \in 1..Len(tbl) : ~Less(tbl[c], tbl[d])}

C3_FirstOfTies ==
  Selected =>
    /\ best_index \in Maxima(cv_results)
    /\ \A c \in Maxima(cv_results) : best_index <= c
    /\ best_params = candidate_params[best_index]

C3_Witness ==
  /\ Selected
  /\ Cardinality(Maxima(cv_results)) >= 2
  /\ Cardinality(Maxima(cv_results)) < Len(cv_results)

(* C4: whatever the order in which the workers finish, row c of the table  *)
(* is the mean of candidate c's own fold scores, and the best result is    *)
(* the first maximum in enumeration order.                                 *)
ReferenceRow(c) ==
  LET r == [f \in 1..n_splits |-> FitAndScore(kind[c], y, splits[f].train, splits[f].test)]
  IN [num |-> SumSeq([f \in 1..n_splits |-> r[f].correct]),
      den |-> SumSeq([f \in 1..n_splits |-> r[f].size])]

ReferenceTable == [c \in 1..ProdSeq(param_grid) |-> ReferenceRow(c)]

C4_OrderIndependent ==
  /\ Searched => cv_results = ReferenceTable
  /\ Selected => /\ best_index \in Maxima(ReferenceTable)
                 /\ \A c \in Maxima(ReferenceTable) : best_index <= c

C4_Witness == Selected /\ reordered /\ n_jobs >= 2 /\ Len(cv_results) >= 2

(* C5 as stated: for every fold count k >= 2 and every sample count the    *)
(* splitter yields k test sets that partition the sample indices.          *)
Partitioned ==
  /\ Len(splits) = n_splits
  /\ UNION {splits[f].test : f \in 1..Len(splits)} = 1..Len(y)
  /\ \A f, g \in 1..Len(splits) : f # g => splits[f].test \cap splits[g].test = {}
  /\ \A i \in 1..Len(y) : Cardinality({f \in 1..Len(splits) : i \in splits[f].test}) = 1

C5_AlwaysPartition == pc # "split" => Partitioned

(* C5, amended: whenever some class has at least k samples the splitter    *)
(* yields k test sets that partition the sample indices; otherwise it      *)
(* raises and yields no fold.                                              *)
C5_PartitionOrRaise ==
  /\ pc = "split_done" => ~SplitRaises(y, n_splits) /\ Partitioned
  /\ (pc = "error" /\ err = "SplitError") => SplitRaises(y, n_splits) /\ splits = <<>>

C5_Witness ==
  /\ pc = "split_done"
  /\ Present(y) = Classes
  /\ Len(y) > n_splits
  /\ \E f \in 1..Len(splits) : Cardinality(splits[f].test) >= 2

(* C6: in a stratified split, the number of samples of class c in any      *)
(* fold's test set is within 1 of count(c) / k.                            *)
InTest(c, f) == Cardinality({i \in splits[f].test : y[i] = c})

C6_Stratified ==
  pc = "split_done" =>
    \A c \in Classes : \A f \in 1..Len(splits) :
      /\ n_splits * InTest(c, f) - Count(y, c) <= n_splits
      /\ Count(y, c) - n_splits * InTest(c, f) <= n_splits

C6_Witness ==
  /\ pc = "split_done"
  /\ \E c \in Classes : Count(y, c) > n_splits /\ Count(y, c) % n_splits # 0
  /\ \E c \in Classes : Count(y, c) > 0 /\ Count(y, c) < n_splits

C9_ConfigurationError ==
  /\ err = "InvalidParameter" =>
       /\ pc = "error"
       /\ bad_param
       /\ \A t \in DOMAIN evals : evals[t] = 0
       /\ completed = 0
       /\ cv_results = <<>>
       /\ best_index = 0
  /\ bad_param =>
       /\ \A t \in DOMAIN evals : evals[t] = 0
       /\ \A t \in DOMAIN out : out[t] = Pending
       /\ ~Searched

C9_Witness == err = "InvalidParameter" /\ Len(candidate_params) >= 2

FoldFits == SumSeq([t \in 1..Len(evals) |-> evals[t]])

C11_FitCount ==
  /\ Searched =>
       /\ FoldFits = ProdSeq(param_grid) * n_splits
       /\ completed = ProdSeq(param_grid) * n_splits
       /\ Len(cv_results) = ProdSeq(param_grid)
  /\ best_estimator # NoEstimator => FoldFits = ProdSeq(param_grid) * n_splits
  /\ ~Searched => best_estimator = NoEstimator

C11_Witness ==
  /\ pc = "selected"
  /\ ProdSeq(param_grid) = 4
  /\ n_splits = 3
  /\ FoldFits = 12
  /\ Len(cv_results) = 4

(* C12: after a successful search best_estimator_ carries exactly the      *)
(* parameters of the best result and has been fit on all N samples, and    *)
(* it is fit only after the best result has been selected.                 *)
C12_RefitAfterSelection ==
  /\ pc = "done" =>
       /\ best_estimator.params = best_params
       /\ best_estimator.params = candidate_params[best_index]
       /\ best_estimator.fitted_on = 1..Len(y)
  /\ best_estimator # NoEstimator =>
       /\ pc = "done"
       /\ best_index \in 1..Len(cv_results)
       /\ best_score = cv_results[best_index]
  /\ pc \in {"init", "running", "stored", "selected", "error"} =>
       best_estimator = NoEstimator

C12_Witness ==
  /\ pc = "done"
  /\ best_index > 1
  /\ Len(y) >= 4
  /\ \E f \in 1..Len(splits) : splits[f].test # {}

(* C13: the table is built at one point only, when every task of every    *)
(* candidate has returned its result, and the best result is selected      *)
(* only from that complete table.                                          *)
TableComplete ==
  /\ completed = ProdSeq(param_grid) * n_splits
  /\ running = {}
  /\ \A t \in 1..Len(out) : out[t] # Pending
  /\ Len(out) = ProdSeq(param_grid) * n_splits

C13_SingleJoin ==
  /\ [](Searched => TableComplete /\ Len(cv_results) = ProdSeq(param_grid))
  /\ [](best_index # 0 => TableComplete /\ Len(cv_results) = ProdSeq(param_grid))
  /\ [][(cv_results' # cv_results /\ cv_results' # <<>>) =>
          (cv_results = <<>> /\ TableComplete /\ best_index = 0)]_vars
  /\ [][(best_index' # best_index /\ best_index' # 0) =>
          (pc = "stored" /\ cv_results' = cv_results /\ out' = out)]_vars

C13_Witness ==
  /\ pc = "selected"
  /\ TableComplete
  /\ completed >= 2 * cv
  /\ reordered

(* C14: the report leaves the model it was handed as it was: fit on all N  *)
(* samples, never re-fit on a fold's training indices.                     *)
Reporting == pc \in {"report", "folds", "reported"}

C14_ReportLeavesModel == Reporting => best_estimator = FullFit(y)

(* C15: the overall accuracy of the report is the arithmetic mean of the   *)
(* k per-fold accuracies, each (test samples predicted correctly) / (test  *)
(* samples of the fold), every fold weighing the same.                     *)
RefFold(f) ==
  [num |-> Cardinality({j \in splits[f].test :
                          Predict(kind[1], y, splits[f].train, j) = y[j]}),
   den |-> Cardinality(splits[f].test)]

RefDen == ProdSeq([f \in 1..n_splits |-> RefFold(f).den])

C15_MeanOfFoldAccuracies ==
  /\ pc \in {"folds", "reported"} =>
       \A f \in 1..Len(accuracy) : accuracy[f] = RefFold(f) /\ accuracy[f].den > 0
  /\ pc = "reported" =>
       /\ Len(accuracy) = n_splits
       /\ overall.mean.den > 0
       /\ overall.mean.num * n_splits * RefDen
            = overall.mean.den
                * SumSeq([f \in 1..n_splits |-> RefFold(f).num * (RefDen \div RefFold(f).den)])
       /\ overall.pct = Percent(overall.mean.num, overall.mean.den, 1000)

C15_Witness ==
  /\ pc = "reported"
  /\ \E f, g \in 1..Len(accuracy) :
       /\ accuracy[f].den # accuracy[g].den
       /\ accuracy[f].num * accuracy[g].den # accuracy[g].num * accuracy[f].den
  /\ ~SameScore(overall.mean, PooledAccuracy(accuracy))

(* C16: for every prediction vector and target vector of the same length  *)
(* the report gives, for each class c, (samples of actual class c          *)
(* predicted c) / (samples of actual class c), and overall                 *)
(* (samples predicted correctly) / (all samples), each also as a           *)
(* percentage to the nearest tenth.                                        *)
Nearest(pct, num, den) ==
  /\ ~pct.nan
  /\ 2 * (pct.value * den - 1000 * num) <= den
  /\ 2 * (1000 * num - pct.value * den) <= den

OfClass(c) == {j \in 1..Len(y) : y[j] = c}

Line(p, c) == IF c = 0 THEN p.nontoxic ELSE p.toxic

C16_PerClassAccuracy ==
  pc = "printed" =>
    /\ Len(printed) = 1
    /\ printed[1].all.num = Cardinality({j \in 1..Len(y) : y_est[j] = y[j]})
    /\ printed[1].all.den = Len(y)
    /\ Nearest(printed[1].all.pct, printed[1].all.num, Len(y))
    /\ \A c \in Classes :
         /\ Line(printed[1], c).num = Cardinality({j \in OfClass(c) : y_est[j] = c})
         /\ Line(printed[1], c).den = Cardinality(OfClass(c))
         /\ OfClass(c) # {} =>
              Nearest(Line(printed[1], c).pct, Line(printed[1], c).num,
                      Cardinality(OfClass(c)))

C16_Witness ==
  /\ pc = "printed"
  /\ printed[1].nontoxic.den = 2
  /\ printed[1].nontoxic.num = 1
  /\ printed[1].toxic.den = 1
  /\ printed[1].toxic.num = 0
  /\ printed[1].all.pct.value = 333

(* C17: no figure of the report is NaN, also when the test set of a fold   *)
(* holds no sample of some class.                                          *)
C17_NoNaNReported ==
  /\ \A f \in 1..Len(printed) :
       /\ ~printed[f].all.pct.nan
       /\ ~printed[f].nontoxic.pct.nan
       /\ ~printed[f].toxic.pct.nan
  /\ pc = "reported" => ~overall.pct.nan

(* C18: fit calls fit_transform on the stages before the last in list      *)
(* order, each on the output of the stage before it, and then fit on the   *)
(* last stage with the labels; predict calls transform on the same stages  *)
(* in the same order with what fit learned, then predict on the last       *)
(* stage, and leaves every stage as fit left it.                           *)
FitCalls ==
  LET n == Len(steps)
  IN /\ Len(calls) = n
     /\ \A k \in 1..n :
          /\ calls[k].stage = k
          /\ calls[k].method = (IF k < n THEN "fit_transform" ELSE "fit")
          /\ calls[k].X = (IF k = 1 THEN last.X
                           ELSE Out(k - 1, calls[k - 1].X, calls[k - 1].X))
          /\ steps[k].learned = calls[k].X
     /\ calls[n].labels

PredictCalls ==
  LET n == Len(steps)
  IN /\ Len(calls) = n
     /\ \A k \in 1..n :
          /\ calls[k].stage = k
          /\ calls[k].method = (IF k < n THEN "transform" ELSE "predict")
          /\ calls[k].X = (IF k = 1 THEN last.X
                           ELSE Out(k - 1, steps[k - 1].learned, calls[k - 1].X))
          /\ steps[k].learned # <<>>

C18_StageOrder ==
  /\ [](last.op = "fit" => FitCalls)
  /\ []((last.op = "predict" /\ pc = "pipeline") => PredictCalls)
  /\ [][last'.op = "predict" => steps' = steps]_vars

C18_Witness ==
  /\ last.op = "predict"
  /\ pc = "pipeline"
  /\ Len(steps) = 3
  /\ last.X # steps[1].learned

(* C19: set_params with the flat key of stage s and parameter p sets that  *)
(* parameter of that stage and nothing else; every other parameter keeps   *)
(* its value, which is the constructed one until a key names it.           *)
C19_KeyRouting ==
  /\ [](ops = 0 => steps = Constructed(Len(steps)))
  /\ [][(last'.op = "set_params" /\ pc' = "pipeline") =>
          /\ Len(steps') = Len(steps)
          /\ \A s \in 1..Len(steps) :
               /\ steps'[s].name = steps[s].name
               /\ steps'[s].learned = steps[s].learned
               /\ \A p \in StageParams :
                    steps'[s].params[p] =
                      (IF steps[s].name = last'.key[1] /\ p = last'.key[2]
                         THEN last'.value ELSE steps[s].params[p])]_vars
  /\ [][last'.op \in {"fit", "predict"} =>
          \A s \in 1..Len(steps) : steps'[s].params = steps[s].params]_vars

C19_Witness ==
  /\ last.op = "set_params"
  /\ pc = "pipeline"
  /\ Len(steps) = 3
  /\ last.key = <<2, 1>>
  /\ steps[2].params[1] = last.value
  /\ steps[1].params[1] = 0
  /\ steps[3].params[2] # 0
  /\ steps[3].params[2] # last.value

C21_ScoreMatrix ==
  /\ (Len(param_grid) = 2 /\ Len(paramnames) = 2) => err \notin {"IndexError", "ValueError"}
  /\ (pc = "pivoted" /\ Len(param_grid) = 2) =>
       LET a == paramnames[1]
           b == paramnames[2]
       IN /\ DOMAIN resultspv = 1..param_grid[a]
          /\ \A r \in DOMAIN resultspv :
               /\ DOMAIN resultspv[r] = 1..param_grid[b]
               /\ \A c \in DOMAIN resultspv[r] :
                    /\ ~IsNaN(resultspv[r][c])
                    /\ Cardinality({j \in 1..Len(candidate_params) :
                                      /\ candidate_params[j][a] = r
                                      /\ candidate_params[j][b] = c}) = 1
          /\ \A j \in 1..Len(candidate_params) :
               resultspv[candidate_params[j][a]][candidate_params[j][b]] = cv_results[j]

C21_Witness ==
  /\ pc = "pivoted"
  /\ param_grid = <<2, 3>>
  /\ paramnames = <<2, 1>>
  /\ resultspv[1][2] # resultspv[2][1]

(* C22: every accuracy of the workflow - each fold score, each mean score  *)
(* of the table, the best score, each fold accuracy of the report and its  *)
(* overall accuracy - is a number between 0 and 1: correct predictions     *)
(* never outnumber the test samples.                                       *)
InUnit(num, den) == den > 0 /\ 0 <= num /\ num <= den

C22_AccuracyInUnit ==
  /\ \A t \in 1..Len(out) : out[t] # Pending => InUnit(out[t].correct, out[t].size)
  /\ \A c \in 1..Len(cv_results) : InUnit(cv_results[c].num, cv_results[c].den)
  /\ Selected => InUnit(best_score.num, best_score.den)
  /\ \A f \in 1..Len(accuracy) : InUnit(accuracy[f].num, accuracy[f].den)
  /\ \A f \in 1..Len(printed) :
       /\ InUnit(printed[f].all.num, printed[f].all.den)
       /\ printed[f].all.pct.value <= 1000
  /\ pc = "reported" =>
       /\ InUnit(overall.mean.num, overall.mean.den)
       /\ overall.pct.value <= 1000

C22_Witness ==
  /\ pc = "reported"
  /\ 0 < overall.mean.num
  /\ overall.mean.num < overall.mean.den
  /\ \E f \in 1..Len(accuracy) : accuracy[f].num = accuracy[f].den

(* C23: in every fold evaluation of a search, the vectorizer and the       *)
(* classifier behind the fold's score were fit on training samples of the  *)
(* fold only, on no sample of its test set.                                *)
C23_NoTestSampleInFit ==
  \A t \in 1..Len(fitted) :
    fitted[t] # NotFitted =>
      /\ fitted[t].vectorizer \cap splits[TaskFold(t)].test = {}
      /\ fitted[t].classifier \cap splits[TaskFold(t)].test = {}

(* C24 as stated: the mean score of a candidate is the plain average of   *)
(* its k fold accuracies, whatever the sizes of the folds' test sets.      *)
FoldsOf(c) == [f \in 1..n_splits |-> out[(c - 1) * n_splits + f]]

PlainAverage(rs) ==
  LET sizes == ProdSeq([f \in 1..Len(rs) |-> rs[f].size])
  IN [num |-> SumSeq([f \in 1..Len(rs) |-> rs[f].correct * (sizes \div rs[f].size)]),
      den |-> Len(rs) * sizes]

C24_PlainAverage ==
  Searched => \A c \in 1..Len(cv_results) : SameScore(cv_results[c], PlainAverage(FoldsOf(c)))

(* C24, amended: the mean score of a candidate is the average of its k     *)
(* fold accuracies weighted by the sizes of the folds' test sets, that is  *)
(* all its correct test predictions over all its test samples; with test   *)
(* sets of one size this is the plain average.                             *)
EqualSizes(rs) == \A f, g \in 1..Len(rs) : rs[f].size = rs[g].size

C24_WeightedAverage ==
  Searched =>
    \A c \in 1..Len(cv_results) :
      /\ cv_results[c].num * SumSeq([f \in 1..n_splits |-> FoldsOf(c)[f].size])
           = cv_results[c].den * SumSeq([f \in 1..n_splits |-> FoldsOf(c)[f].correct])
      /\ cv_results[c].den > 0
      /\ EqualSizes(FoldsOf(c)) => SameScore(cv_results[c], PlainAverage(FoldsOf(c)))

C24_Witness ==
  /\ Searched
  /\ \E c \in 1..Len(cv_results) :
       /\ ~EqualSizes(FoldsOf(c))
       /\ ~SameScore(cv_results[c], PlainAverage(FoldsOf(c)))
  /\ \E c \in 1..Len(cv_results) : cv_results[c].num > 0

(* C25: a row of the table is created only when all k fold evaluations of *)
(* its candidate have returned, as the mean of those k scores, and a row   *)
(* that exists keeps its value for the rest of the search.                 *)
C25_RowCreatedOnce ==
  /\ [][\A c \in 1..Len(cv_results') :
          c > Len(cv_results) =>
            /\ \A f \in 1..n_splits : out[(c - 1) * n_splits + f] # Pending
            /\ out' = out
            /\ cv_results'[c] = MeanTestScore(FoldsOf(c))]_vars
  /\ [][\A c \in 1..Len(cv_results) :
          Len(cv_results') >= c /\ cv_results'[c] = cv_results[c]]_vars

C25_Witness ==
  /\ pc = "done"
  /\ Len(cv_results) >= 3
  /\ reordered
  /\ \A c \in 1..Len(cv_results) : ~IsNaN(cv_results[c])
  /\ Len(y) = 2 * MaxPerClass

(* C26: under fair scheduling a search ends; a task a worker has taken     *)
(* returns whatever the other workers do, a running task never has to wait *)
(* for another, and when no error ends the search the table is built and   *)
(* the best result selected.                                               *)
CleanInputs ==
  /\ ~bad_param
  /\ ~SplitRaises(y, n_splits)
  /\ \A c \in 1..Len(kind) : kind[c] # "invalid"

C26_Terminates ==
  /\ <>(pc \in {"done", "error"})
  /\ CleanInputs => <>(Selected /\ completed = ProdSeq(param_grid) * n_splits)
  /\ (running # {}) ~> (running = {} \/ pc = "error")
  /\ [](pc = "running" => \A t \in running : ENABLED Complete(t))

C26_Witness ==
  /\ pc = "done"
  /\ completed = MaxCandidates * cv
  /\ n_jobs >= 2
  /\ Len(y) = 2 * MaxPerClass

(* C27: the printed best assignment names every parameter of the grid     *)
(* once, in ascending name order, each with a value the grid lists for it, *)
(* the value of the best candidate.                                        *)
C27_BestAssignment ==
  pc \in {"best_printed", "pivoted"} =>
    /\ Len(best_parameters) = Len(param_grid)
    /\ \A k \in 1..Len(best_parameters) :
         /\ best_parameters[k].name = k
         /\ best_parameters[k].value \in 1..param_grid[k]
         /\ best_parameters[k].value = candidate_params[best_index][k]

C27_Witness ==
  /\ pc = "best_printed"
  /\ paramnames = <<2, 1>>
  /\ best_parameters[1].value # best_parameters[2].value
  /\ best_index > 1

NonToxicIn(rows) == Cardinality({k \in 1..Len(rows) : toxicity[rows[k]] = 0})

ToxicIn(rows) == Cardinality({k \in 1..Len(rows) : toxicity[rows[k]] = 1})

(* C28: after the equalization the combined set holds numtrainingsamples  *)
(* non-toxic and numtrainingsamples toxic comments, twice that in all, and *)
(* the target has one label for each of its texts.                         *)
C28_Equalized ==
  pc = "equalized" =>
    /\ NonToxicIn(X_text) = numtrainingsamples
    /\ ToxicIn(X_text) = numtrainingsamples
    /\ Len(X_text) = 2 * numtrainingsamples
    /\ Len(y) = Len(X_text)

(* C29: a comment is labelled toxic exactly when its median annotation     *)
(* score is below 0; a median of 0 or above is labelled non-toxic.         *)
IsMedian(m, r) ==
  /\ m.den = 2
  /\ 2 * Cardinality({k \in 1..Len(r) : 2 * r[k] <= m.num}) >= Len(r)
  /\ 2 * Cardinality({k \in 1..Len(r) : 2 * r[k] >= m.num}) >= Len(r)
  /\ \/ \E k \in 1..Len(r) : 2 * r[k] = m.num
     \/ \E k, l \in 1..Len(r) : k # l /\ r[k] + r[l] = m.num

C29_ToxicBelowZero ==
  pc \in {"labelled", "equalized"} =>
    /\ Len(toxicity) = Len(scores)
    /\ Len(median_score) = Len(scores)
    /\ \A i \in 1..Len(scores) :
         /\ IsMedian(median_score[i], scores[i])
         /\ toxicity[i] \in {0, 1}
         /\ toxicity[i] = 1 <=> median_score[i].num < 0
         /\ toxicity[i] = 0 <=> median_score[i].num >= 0

C29_Witness ==
  /\ pc = "labelled"
  /\ Len(scores) = MaxComments
  /\ \E i \in 1..Len(scores) : median_score[i].num = -1 /\ toxicity[i] = 1
  /\ \E i \in 1..Len(scores) : median_score[i].num = 0 /\ toxicity[i] = 0
  /\ \E i \in 1..Len(scores) : median_score[i].num > 0 /\ toxicity[i] = 0

(* C30: in the report of every fold the non-toxic and the toxic count of  *)
(* the test set add up to its size, and the correct non-toxic and correct  *)
(* toxic predictions add up to the correct predictions overall.            *)
C30_CountsAddUp ==
  \A f \in 1..Len(printed) :
    /\ printed[f].n_nontoxic + printed[f].n_toxic = printed[f].all.den
    /\ printed[f].nontoxic.den = printed[f].n_nontoxic
    /\ printed[f].toxic.den = printed[f].n_toxic
    /\ printed[f].nontoxic.num + printed[f].toxic.num = printed[f].all.num
    /\ pc # "print" /\ Len(splits) >= f =>
         printed[f].all.den = Cardinality(splits[f].test)

C30_Witness ==
  /\ Len(printed) = report_splits
  /\ \E f \in 1..Len(printed) :
       /\ printed[f].n_nontoxic > 0
       /\ printed[f].n_toxic > 0
       /\ printed[f].all.num < printed[f].all.den
       /\ printed[f].all.num > 0

====
